---- MODULE Spec2Model ----
(***************************************************************************)
(* A model of the two chart components of d3-gallery:                      *)
(*   - GanttChartComponent (gantt-chart.component.ts): the record heap,    *)
(*     the flattener preProcess, the click handler, go()/compute()/render()*)
(*     and the keyed data join of renderGantt;                             *)
(*   - TimeChartComponent (time-chart.component.ts): extents, scales, the  *)
(*     zoom handler and the rendered line.                                 *)
(* Spec is the Gantt component, SpecTime the time chart.                   *)
(***************************************************************************)
EXTENDS Integers, Sequences, FiniteSets, TLC

VARIABLES
    \* ---- GanttChartComponent ----
    heap,          \* the SerieGantt objects: record id -> fields
    rootKEY,       \* private rootKEY = uuidv4()
    serieSource,   \* id of the synthetic root record (NoRec before the setter ran)
    seriesNodes,   \* SerieGanttNode[] (Undefined before the setter ran)
    seriesNodeMap, \* key -> node
    xExtent,       \* [min start, max end]
    xScale,        \* time scale: domain, range
    yScale,        \* band scale: domain (keys), range
    bars,          \* the rect elements of #ganttLayer in document order
    yLabels,       \* the tick labels drawn in #yAxisLayer
    viewInit,      \* ngAfterViewInit has run
    uuidCount,     \* number of uuidv4() values drawn so far
    elCount,       \* number of rect elements created so far
    setCount,      \* number of assignments to the series input so far
    lastOp,        \* history: the handler that ran last and what it saw
    prevOp,        \* history: the handler that ran before lastOp
    \* ---- TimeChartComponent ----
    tSeries,       \* series: Serie[]
    tLoaded,       \* the getData() subscription has delivered
    tXExtent, tYExtent,
    tXScale, tYScale,
    tXAxis, tYAxis,
    tZoom,         \* the zoom behaviour installed by computeZoom (or NoZoom)
    tPath,         \* the vertices of the path in #linesLayer (<<>>: no path)
    tAxisDrawn,    \* what renderAxis drew last
    tStats,        \* history: how often computeExtent and getData ran
    tLast          \* history: the handler that ran last and its event

ganttVars == <<heap, rootKEY, serieSource, seriesNodes, seriesNodeMap, xExtent,
               xScale, yScale, bars, yLabels, viewInit, uuidCount, elCount, setCount,
               lastOp, prevOp>>
timeVars == <<tSeries, tLoaded, tXExtent, tYExtent, tXScale, tYScale, tXAxis,
              tYAxis, tZoom, tPath, tAxisDrawn, tStats, tLast>>
vars == <<ganttVars, timeVars>>

(***************************************************************************)
(* Bounds of the model.                                                    *)
(***************************************************************************)
\* uuidv4() values that may be drawn in one behaviour
MaxUuid == 16
\* assignments to the series input in one behaviour
MaxSets == 2
\* points in the series the time chart loads
MaxPoints == 2

-----------------------------------------------------------------------------
(***************************************************************************)
(* JavaScript values.                                                      *)
(***************************************************************************)
Undefined == [tag |-> "undefined", items |-> <<>>]
Null == [tag |-> "null", items |-> <<>>]
Arr(s) == [tag |-> "array", items |-> s]
\* an array, even an empty one, is truthy; undefined and null are falsy
Truthy(v) == v.tag = "array"

\* dates: a date string of the input, a Date object, or null (the root)
DateStr(t) == [kind |-> "string", t |-> t]
DateObj(t) == [kind |-> "date", t |-> t]
DateNull == [kind |-> "null", t |-> 0]
\* new Date(x): a Date with the time the string or the Date denotes;
\* new Date(null) is the epoch
NewDate(v) == IF v.kind = "null" THEN DateObj(0) ELSE DateObj(v.t)

\* record ids: the s-th object graph made by clone(), path of child indices
RecId(s, p) == [s |-> s, p |-> p]
NoRec == RecId(0, <<>>)
NoKey == 0

RECURSIVE SeqToSet(_)
SeqToSet(s) == IF s = <<>> THEN {} ELSE {Head(s)} \cup SeqToSet(Tail(s))

RECURSIVE Reverse(_)
Reverse(s) == IF s = <<>> THEN <<>> ELSE Append(Reverse(Tail(s)), Head(s))

-----------------------------------------------------------------------------
(***************************************************************************)
(* GanttChartComponent: configuration.                                     *)
(***************************************************************************)
GanttWidth == 800
PadTop == 15
PadRight == 15
PadBottom == 15
PadLeft == 55
RowHeight == 40

\* get viewBoxHeight(): seriesNodes.length * 40
viewBoxHeight(nodes) == Len(nodes) * RowHeight
\* get canvasWidth(), get canvasHeight()
canvasWidth == GanttWidth - (PadLeft + PadRight)
canvasHeight(nodes) == viewBoxHeight(nodes) - (PadTop + PadBottom)

(***************************************************************************)
(* The values the series input is given: nested SerieGantt records with    *)
(* data populated (or, for a leaf, absent or empty), no key and no _data.  *)
(***************************************************************************)
In(name, start, end, data) ==
    [name |-> name, start |-> start, end |-> end, key |-> NoKey,
     data |-> data, _data |-> Undefined]

InputEmpty == <<>>
\* the scenario of the specification: A with one child B
InputAB ==
    << In("A", DateObj(1), DateObj(5),
          Arr(<< In("B", DateObj(2), DateObj(3), Undefined) >>)) >>
\* two levels, a sibling after a nested subtree, date strings, an empty data
InputNested ==
    << In("P", DateStr(1), DateStr(9),
          Arr(<< In("Q", DateStr(2), DateStr(6),
                    Arr(<< In("R", DateStr(3), DateStr(4), Arr(<<>>)) >>)),
                 In("S", DateStr(5), DateStr(8), Undefined) >>)) >>
\* two top-level records
InputTwo ==
    << In("X", DateObj(4), DateObj(4), Undefined),
       In("Y", DateObj(2), DateObj(7),
          Arr(<< In("Z", DateStr(3), DateStr(5), Undefined) >>)) >>

Inputs == {InputEmpty, InputAB, InputNested, InputTwo}

RECURSIVE InputSize(_)
InputSize(items) ==
    IF items = <<>> THEN 0
    ELSE 1 + InputSize(Head(items).data.items) + InputSize(Tail(items))

(***************************************************************************)
(* clone(series): a deep copy, every record a new object.  The s-th copy   *)
(* names its objects RecId(s, path).  The result is the new objects as a   *)
(* set of [id, rec] pairs.                                                 *)
(***************************************************************************)
RECURSIVE CloneRec(_, _)
CloneRec(v, id) ==
    LET kids == v.data.items
        kidIds == [i \in 1..Len(kids) |-> RecId(id.s, Append(id.p, i))]
    IN  {[id |-> id,
          rec |-> [name |-> v.name, start |-> v.start, end |-> v.end,
                   key |-> v.key,
                   data |-> IF v.data.tag = "array" THEN Arr(kidIds) ELSE v.data,
                   _data |-> v._data]]}
        \cup UNION {CloneRec(kids[i], kidIds[i]) : i \in 1..Len(kids)}

clone(series, s) ==
    UNION {CloneRec(series[i], RecId(s, <<i>>)) : i \in 1..Len(series)}

\* the objects of a set of [id, rec] pairs as a heap fragment
AsHeap(S) == [id \in {x.id : x \in S} |-> (CHOOSE x \in S : x.id = id).rec]

(***************************************************************************)
(* d3.hierarchy(series, serie => serie.data): one node per record reached  *)
(* through data, built with a stack; a record whose data is falsy or empty *)
(* gets no children.  Nodes are named by the record they wrap.             *)
(***************************************************************************)
MkNode(id, depth, parent) ==
    [data |-> id, depth |-> depth, parent |-> parent, children |-> <<>>]

\* a traversal that pushes the children first to last: the last child on top
PushOrderForward(childs) == Reverse(childs)

\* the order in which `for (i = n - 1; i >= 0; --i) nodes.push(childs[i])`
\* leaves the children on the stack: the first child on top
PushOrder(childs) == childs

RECURSIVE HierarchyLoop(_, _, _)
HierarchyLoop(h, stack, nodes) ==
    IF stack = <<>> THEN nodes
    ELSE LET id == Head(stack)          \* node = nodes.pop(); the stack's top is its head
             rest == Tail(stack)
             childs == h[id].data
         IN  IF Truthy(childs) /\ Len(childs.items) > 0
             THEN LET kids == [c \in SeqToSet(childs.items) |->
                                 MkNode(c, nodes[id].depth + 1, id)]
                  IN  HierarchyLoop(h, PushOrder(childs.items) \o rest,
                                    [nodes EXCEPT ![id].children = childs.items] @@ kids)
             ELSE HierarchyLoop(h, rest, nodes)

hierarchy(h, root) ==
    HierarchyLoop(h, <<root>>, (root :> MkNode(root, 0, NoRec)))

\* node.eachBefore(callback): pre-order, again with a stack
RECURSIVE EachBeforeLoop(_, _, _)
EachBeforeLoop(nodes, stack, out) ==
    IF stack = <<>> THEN out
    ELSE LET id == Head(stack)
         IN  EachBeforeLoop(nodes, PushOrder(nodes[id].children) \o Tail(stack),
                            Append(out, nodes[id]))

eachBefore(nodes, root) == EachBeforeLoop(nodes, <<root>>, <<>>)

\* the i-th value uuidv4() returns: all distinct
Uuid(i) == i

\* .filter(node => node.data.key !== this.rootKEY)
KeepNode(h, node, rootKey) == h[node.data].key # rootKey

(***************************************************************************)
(* preProcess(series): the flattened list, and its side effects: every     *)
(* emitted record gets a new key and Date objects for start and end.       *)
(***************************************************************************)
preProcessNodes(h, root, rootKey) ==
    SelectSeq(eachBefore(hierarchy(h, root), root),
              LAMBDA node : KeepNode(h, node, rootKey))

\* keys taken from the position in the list instead of from uuidv4()
FreshKeyByIndex(n, i) == Uuid(i + 1)

\* the key the i-th emitted node is given, n uuids having been drawn before
FreshKey(n, i) == Uuid(n + i)

preProcessHeap(h, kept, n) ==
    [id \in DOMAIN h |->
        IF \E i \in 1..Len(kept) : kept[i].data = id
        THEN LET i == CHOOSE i \in 1..Len(kept) : kept[i].data = id
             IN  [h[id] EXCEPT !.key = FreshKey(n, i),
                               !.start = NewDate(@),
                               !.end = NewDate(@)]
        ELSE h[id]]

\* this.seriesNodes.reduce((acc, curr) => ({...acc, [curr.data.key]: curr}), {})
NodeMap(h, nodes) ==
    [k \in {h[nodes[i].data].key : i \in 1..Len(nodes)} |->
        LET i == CHOOSE i \in 1..Len(nodes) :
                    /\ h[nodes[i].data].key = k
                    /\ \A j \in (i+1)..Len(nodes) : h[nodes[j].data].key # k
        IN  nodes[i]]

(***************************************************************************)
(* compute(): extent, scales, axis labels, colour.                         *)
(***************************************************************************)
DateUndefined == [kind |-> "undefined", t |-> 0]

\* d3.min / d3.max over Date objects; undefined over an empty array
d3min(ds) ==
    IF ds = <<>> THEN DateUndefined
    ELSE LET i == CHOOSE i \in 1..Len(ds) : \A j \in 1..Len(ds) : ds[i].t <= ds[j].t
         IN  ds[i]
d3max(ds) ==
    IF ds = <<>> THEN DateUndefined
    ELSE LET i == CHOOSE i \in 1..Len(ds) : \A j \in 1..Len(ds) : ds[i].t >= ds[j].t
         IN  ds[i]

computeExtent(h, nodes) ==
    << d3min([i \in 1..Len(nodes) |-> h[nodes[i].data].start]),
       d3max([i \in 1..Len(nodes) |-> h[nodes[i].data].end]) >>

NodeKeys(h, nodes) == [i \in 1..Len(nodes) |-> h[nodes[i].data].key]

computeXScale(extent) == [domain |-> extent, range |-> <<0, canvasWidth>>]
computeYScale(h, nodes) ==
    [domain |-> NodeKeys(h, nodes), range |-> <<0, canvasHeight(nodes)>>]

\* a continuous scale at t, floored to a whole pixel; a one-point domain
\* maps to the middle of the range
ScaleTimeAt(sc, t) ==
    LET d0 == sc.domain[1].t
        d1 == sc.domain[2].t
        r0 == sc.range[1]
        r1 == sc.range[2]
    IN  IF d1 = d0 THEN (r0 + r1) \div 2
        ELSE r0 + ((t - d0) * (r1 - r0)) \div (d1 - d0)

\* position of a key in a band scale's domain (0 when absent)
BandIndex(sc, k) ==
    IF \E i \in 1..Len(sc.domain) : sc.domain[i] = k
    THEN CHOOSE i \in 1..Len(sc.domain) :
            sc.domain[i] = k /\ \A j \in 1..(i-1) : sc.domain[j] # k
    ELSE 0

\* the positional attribute functions of renderGantt (whole pixels):
\* toTargetX, toTargetY, targetWidth, targetHeight
TargetAttrs(h, node, xs, ys) ==
    LET n == Len(ys.domain)
        H == ys.range[2] - ys.range[1]
        i == BandIndex(ys, h[node.data].key)
    IN  [x |-> ScaleTimeAt(xs, h[node.data].start.t),
         y |-> ys.range[1] + (H * (100 * (i - 1) + 15)) \div (100 * n),
         width |-> ScaleTimeAt(xs, h[node.data].end.t)
                   - ScaleTimeAt(xs, h[node.data].start.t),
         height |-> (H * 70) \div (100 * n)]

\* computeColor: the key's position in a band scale over [0, 1], as <<i, n>>
ColorOf(h, nodes, k) ==
    <<BandIndex([domain |-> NodeKeys(h, nodes), range |-> <<0, 1>>], k) - 1,
      Len(nodes)>>

\* renderAxis: the y axis labels each tick with seriesNodeMap[key].data.name
AxisLabels(h, map, ys) ==
    [i \in 1..Len(ys.domain) |-> h[map[ys.domain[i]].data].name]

(***************************************************************************)
(* renderGantt: selectAll('rect').data(seriesNodes, node => node.data.key) *)
(* and the update, enter and exit selections.                              *)
(***************************************************************************)
\* the key function of the join: read through the datum's record
JoinKey(h, node) == h[node.data].key

\* an old element is matched when it is the first of its key and its key is
\* the key of some datum; every other old element is in the exit selection
FirstOfKey(h, bs, i) ==
    \A j \in 1..(i-1) : JoinKey(h, bs[j].datum) # JoinKey(h, bs[i].datum)
IsExit(h, bs, nodes, i) ==
    ~ ( /\ FirstOfKey(h, bs, i)
        /\ \E d \in 1..Len(nodes) : JoinKey(h, nodes[d]) = JoinKey(h, bs[i].datum) )

\* a datum is in the update selection when it is the first datum of a key
\* some old element has; every other datum is in the enter selection
IsUpdate(h, bs, nodes, d) ==
    /\ \E i \in 1..Len(bs) : JoinKey(h, bs[i].datum) = JoinKey(h, nodes[d])
    /\ \A e \in 1..(d-1) : JoinKey(h, nodes[e]) # JoinKey(h, nodes[d])

\* the old element datum d is bound to
UpdateIndex(h, bs, nodes, d) ==
    CHOOSE i \in 1..Len(bs) :
        JoinKey(h, bs[i].datum) = JoinKey(h, nodes[d]) /\ FirstOfKey(h, bs, i)

\* the datum an old, matched element is rebound to
DatumIndex(h, bs, nodes, i) ==
    CHOOSE d \in 1..Len(nodes) :
        /\ JoinKey(h, nodes[d]) = JoinKey(h, bs[i].datum)
        /\ \A e \in 1..(d-1) : JoinKey(h, nodes[e]) # JoinKey(h, nodes[d])

\* UPDATE: the element is kept, rebound, and moved to its target
UpdateBar(h, bar, node, xs, ys) ==
    LET a == TargetAttrs(h, node, xs, ys)
    IN  [bar EXCEPT !.datum = node, !.x = a.x, !.y = a.y,
                    !.width = a.width, !.height = a.height]

\* ENTER: a new rect with class, fill and the target attributes
EnterBar(h, el, node, nodes, xs, ys) ==
    LET a == TargetAttrs(h, node, xs, ys)
    IN  [el |-> el, datum |-> node, class |-> h[node.data].name,
         fill |-> ColorOf(h, nodes, h[node.data].key),
         x |-> a.x, y |-> a.y, width |-> a.width, height |-> a.height]

\* EXIT: exit().remove() takes the unmatched elements out of the layer
RemoveExit(h, bs, nodes) ==
    LET keep == {i \in 1..Len(bs) : ~IsExit(h, bs, nodes, i)}
        RECURSIVE Pick(_)
        Pick(i) == IF i > Len(bs) THEN <<>>
                   ELSE IF i \in keep THEN <<i>> \o Pick(i + 1) ELSE Pick(i + 1)
    IN  Pick(1)

\* enter().append('rect') inserts the d-th datum's element before the
\* element of the next datum of the update selection, or at the end
RECURSIVE AppendEnters(_, _, _, _, _, _, _, _)
AppendEnters(h, old, dom, nodes, d, elc, xs, ys) ==
    IF d > Len(nodes) THEN [bars |-> dom, elCount |-> elc]
    ELSE IF IsUpdate(h, old, nodes, d)
         THEN AppendEnters(h, old, dom, nodes, d + 1, elc, xs, ys)
         ELSE LET new == EnterBar(h, elc + 1, nodes[d], nodes, xs, ys)
                  later == {e \in (d+1)..Len(nodes) : IsUpdate(h, old, nodes, e)}
                  pos == IF later = {} THEN Len(dom) + 1
                         ELSE LET e == CHOOSE e \in later : \A f \in later : e <= f
                                  el == old[UpdateIndex(h, old, nodes, e)].el
                              IN  CHOOSE p \in 1..Len(dom) : dom[p].el = el
                  dom2 == SubSeq(dom, 1, pos - 1) \o <<new>> \o SubSeq(dom, pos, Len(dom))
              IN  AppendEnters(h, old, dom2, nodes, d + 1, elc + 1, xs, ys)

\* a render that empties the layer and draws every datum anew
renderGanttRebuild(h, bs, nodes, elc, xs, ys) ==
    AppendEnters(h, <<>>, <<>>, nodes, 1, elc, xs, ys)

renderGantt(h, bs, nodes, elc, xs, ys) ==
    LET kept == RemoveExit(h, bs, nodes)
        updated == [p \in 1..Len(kept) |->
                       UpdateBar(h, bs[kept[p]],
                                 nodes[DatumIndex(h, bs, nodes, kept[p])], xs, ys)]
    IN  AppendEnters(h, bs, updated, nodes, 1, elc, xs, ys)

-----------------------------------------------------------------------------
(***************************************************************************)
(* GanttChartComponent: the handlers.                                      *)
(***************************************************************************)
NodeList == seriesNodes.items

\* history: what a flattened list holds, by record and by name/start/end
ListOf(h, nodes) ==
    [i \in 1..Len(nodes) |->
        [id |-> nodes[i].data, depth |-> nodes[i].depth,
         name |-> h[nodes[i].data].name,
         start |-> h[nodes[i].data].start, end |-> h[nodes[i].data].end]]

\* history: what is kept of the call before the last one
PrevOf(call) == [op |-> call.op, rec |-> call.rec, listBefore |-> call.listBefore]

OpRecord(op, rec) ==
    [op |-> op, rec |-> rec,
     listBefore |-> IF seriesNodes.tag = "array" THEN ListOf(heap, NodeList) ELSE <<>>,
     keysBefore |-> IF seriesNodes.tag = "array" THEN NodeKeys(heap, NodeList) ELSE <<>>,
     heapBefore |-> heap,
     barsBefore |-> bars]

InitGantt ==
    /\ heap = << >>
    /\ rootKEY = Uuid(1)
    /\ uuidCount = 1
    /\ serieSource = NoRec
    /\ seriesNodes = Undefined
    /\ seriesNodeMap = << >>
    /\ xExtent = <<DateUndefined, DateUndefined>>
    /\ xScale = [domain |-> <<DateUndefined, DateUndefined>>, range |-> <<0, 0>>]
    /\ yScale = [domain |-> <<>>, range |-> <<0, 0>>]
    /\ bars = <<>>
    /\ yLabels = <<>>
    /\ viewInit = FALSE
    /\ elCount = 0
    /\ setCount = 0
    /\ lastOp = [op |-> "new", rec |-> NoRec, listBefore |-> <<>>,
                 keysBefore |-> <<>>, heapBefore |-> << >>, barsBefore |-> <<>>]
    /\ prevOp = PrevOf(lastOp)

\* go(): compute() then render(), on the state the handler has reached
go(h, nodes, map) ==
    LET ext == computeExtent(h, nodes)
        xs == computeXScale(ext)
        ys == computeYScale(h, nodes)
        r == renderGantt(h, bars, nodes, elCount, xs, ys)
    IN  /\ xExtent' = ext
        /\ xScale' = xs
        /\ yScale' = ys
        /\ yLabels' = AxisLabels(h, map, ys)
        /\ bars' = r.bars
        /\ elCount' = r.elCount

\* set series(series)
SetSeries(series) ==
    /\ setCount < MaxSets
    /\ uuidCount + InputSize(series) <= MaxUuid
    /\ LET s == setCount + 1
           root == RecId(s, <<>>)
           top == [i \in 1..Len(series) |-> RecId(s, <<i>>)]
           rootRec == [name |-> "root", start |-> DateNull, end |-> DateNull,
                       key |-> rootKEY, data |-> Arr(top), _data |-> Undefined]
           h1 == (root :> rootRec) @@ AsHeap(clone(series, s)) @@ heap
           kept == preProcessNodes(h1, root, rootKEY)
           h2 == preProcessHeap(h1, kept, uuidCount)
       IN  /\ serieSource' = root
           /\ heap' = h2
           /\ seriesNodes' = Arr(kept)
           /\ seriesNodeMap' = NodeMap(h2, kept)
           /\ uuidCount' = uuidCount + Len(kept)
           /\ setCount' = s
    \* the setter ends here: it calls neither compute() nor render()
    /\ UNCHANGED <<xExtent, xScale, yScale, yLabels, bars, elCount>>
    /\ lastOp' = OpRecord("setSeries", NoRec)
    /\ prevOp' = PrevOf(lastOp)
    /\ UNCHANGED <<rootKEY, viewInit, timeVars>>

\* ngAfterViewInit(), called once, after the inputs were bound
AfterViewInit ==
    /\ ~viewInit
    /\ seriesNodes.tag = "array"
    /\ viewInit' = TRUE
    /\ go(heap, NodeList, seriesNodeMap)
    /\ lastOp' = OpRecord("afterViewInit", NoRec)
    /\ prevOp' = PrevOf(lastOp)
    /\ UNCHANGED <<heap, rootKEY, serieSource, seriesNodes, seriesNodeMap,
                   uuidCount, setCount, timeVars>>

\* a swap that clears data before saving it
ToggleClearFirst(rec) ==
    IF Truthy(rec.data)
    THEN [rec EXCEPT !.data = Null, !._data = Null]
    ELSE [rec EXCEPT !.data = rec._data, !._data = Null]

\* a swap that saves data and does not clear it
ToggleKeepBoth(rec) ==
    IF Truthy(rec.data)
    THEN [rec EXCEPT !._data = rec.data]
    ELSE [rec EXCEPT !.data = rec._data, !._data = Null]

\* the swap of click(): data moves to _data, or _data back to data
Toggle(rec) ==
    IF Truthy(rec.data)
    THEN [rec EXCEPT !._data = rec.data, !.data = Null]
    ELSE [rec EXCEPT !.data = rec._data, !._data = Null]

\* a handler that toggles the parent of the clicked node
ClickTargetParent(node) == node.parent

\* the record click() toggles: node.data
ClickTarget(node) == node.data

\* click(mouseEvent, node) on the i-th rect, node being its bound datum
Click(i) ==
    /\ i \in 1..Len(bars)
    /\ LET r == ClickTarget(bars[i].datum)
           h1 == [heap EXCEPT ![r] = Toggle(heap[r])]
           kept == preProcessNodes(h1, serieSource, rootKEY)
           h2 == preProcessHeap(h1, kept, uuidCount)
           map == NodeMap(h2, kept)
       IN  /\ uuidCount + Len(kept) <= MaxUuid
           /\ heap' = h2
           /\ seriesNodes' = Arr(kept)
           /\ seriesNodeMap' = map
           /\ uuidCount' = uuidCount + Len(kept)
           /\ go(h2, kept, map)
           /\ lastOp' = OpRecord("click", r)
    /\ prevOp' = PrevOf(lastOp)
    /\ UNCHANGED <<rootKEY, serieSource, viewInit, setCount, timeVars>>

Next ==
    \/ \E series \in Inputs : SetSeries(series)
    \/ AfterViewInit
    \/ \E i \in 1..Len(bars) : Click(i)

-----------------------------------------------------------------------------
(***************************************************************************)
(* TimeChartComponent: configuration.                                      *)
(***************************************************************************)
TimeWidth == 800
TimeHeight == 600
TPadTop == 15
TPadRight == 20
TPadBottom == 20
TPadLeft == 55
ZoomMin == 1
ZoomMax == 4

\* get canvasWidth(), get canvasHeight()
tCanvasWidth == TimeWidth - (TPadLeft + TPadRight)
tCanvasHeight == TimeHeight - (TPadTop + TPadBottom)

(***************************************************************************)
(* getData(): the rows of the CSV file, each mapped to                     *)
(* {date: new Date(raw.Date), price: +raw['Closing Price (USD)']}.         *)
(* Dates are whole days, prices whole numbers, both strings in the file.   *)
(***************************************************************************)
NumStr(n) == [kind |-> "string", n |-> n]
\* unary plus on a numeric string
ToNumber(v) == v.n

RawRows ==
    {[Date |-> DateStr(t), Closing |-> NumStr(p)] : t \in {3, 40, 95}, p \in {100, 200}}

RECURSIVE SeqsUpTo(_, _)
SeqsUpTo(S, n) ==
    IF n = 0 THEN {<<>>}
    ELSE LET shorter == SeqsUpTo(S, n - 1)
         IN  shorter \cup {Append(q, x) : q \in {r \in shorter : Len(r) = n - 1}, x \in S}

Responses == SeqsUpTo(RawRows, MaxPoints)

getData(resp) ==
    [i \in 1..Len(resp) |->
        [date |-> NewDate(resp[i].Date), price |-> ToNumber(resp[i].Closing)]]

(***************************************************************************)
(* compute(): extents, scales, axes, zoom.                                 *)
(***************************************************************************)
NumUndefined == [kind |-> "undefined", n |-> 0]
Num(n) == [kind |-> "number", n |-> n]

\* d3.extent over dates and over numbers: [min, max], or [undefined, undefined]
extentDates(ds) == <<d3min(ds), d3max(ds)>>
extentNums(ns) ==
    IF ns = <<>> THEN <<NumUndefined, NumUndefined>>
    ELSE << Num(CHOOSE m \in SeqToSet(ns) : \A x \in SeqToSet(ns) : m <= x),
            Num(CHOOSE m \in SeqToSet(ns) : \A x \in SeqToSet(ns) : m >= x) >>

tComputeExtent(series) ==
    [x |-> extentDates([i \in 1..Len(series) |-> series[i].date]),
     y |-> extentNums([i \in 1..Len(series) |-> series[i].price])]

\* the tick interval (in days) nice() rounds a time domain to: the interval
\* of d3's day/week/month/quarter/year ladder nearest to a tenth of the span;
\* 0 when a tenth of the span is below the ladder (whole days stay as they are)
NiceLadder == <<1, 2, 7, 30, 90, 365>>
NiceStep(span) ==
    LET above == {i \in 1..Len(NiceLadder) : NiceLadder[i] * 10 > span}
        i == IF above = {} THEN Len(NiceLadder) + 1
             ELSE CHOOSE a \in above : \A b \in above : a <= b
    IN  IF i = 1 THEN 0
        ELSE IF i > Len(NiceLadder) THEN NiceLadder[Len(NiceLadder)]
        \* target / ladder[i-1] < ladder[i] / target, target = span / 10
        ELSE IF span * span < 100 * NiceLadder[i - 1] * NiceLadder[i]
             THEN NiceLadder[i - 1] ELSE NiceLadder[i]

FloorTo(t, step) == (t \div step) * step
CeilTo(t, step) == ((t + step - 1) \div step) * step

nice(domain) ==
    IF domain[1].kind = "undefined" THEN domain
    ELSE LET step == NiceStep(domain[2].t - domain[1].t)
         IN  IF step = 0 THEN domain
             ELSE <<DateObj(FloorTo(domain[1].t, step)), DateObj(CeilTo(domain[2].t, step))>>

tComputeScale(ext) ==
    [x |-> [domain |-> nice(ext.x), range |-> <<0, tCanvasWidth>>],
     y |-> [domain |-> ext.y, range |-> <<tCanvasHeight, 0>>]]

\* computeAxis(): new axis objects over the component's two scales
tComputeAxis ==
    [x |-> [orient |-> "bottom", scale |-> "xScale", tickSizeOuter |-> -tCanvasHeight,
            ticks |-> 12, format |-> "%Y/%m"],
     y |-> [orient |-> "left", scale |-> "yScale", tickSize |-> -tCanvasWidth]]

\* computeZoom(): the zoom behaviour installed on the svg
tComputeZoom ==
    [scaleExtent |-> <<ZoomMin, ZoomMax>>,
     extent |-> <<<<0, 0>>, <<tCanvasWidth, tCanvasHeight>>>>,
     translateExtent |-> <<<<0, 0>>, <<tCanvasWidth, tCanvasHeight>>>>]

\* the transforms a gesture can reach under that behaviour: the scale factor
\* within scaleExtent, the translation keeping the view inside translateExtent
Transforms(z) ==
    UNION {{[k |-> k, x |-> x, y |-> y] :
                x \in {0, z.extent[2][1] * (1 - k)},
                y \in {0, z.extent[2][2] * (1 - k)}} :
           k \in z.scaleExtent[1]..z.scaleExtent[2]}

\* transform.applyY(d)
applyY(tr, d) == d * tr.k + tr.y

\* a linear scale at v, floored to a whole pixel
ScaleLinearAt(sc, v) ==
    LET d0 == sc.domain[1].n
        d1 == sc.domain[2].n
        r0 == sc.range[1]
        r1 == sc.range[2]
    IN  IF d1 = d0 THEN (r0 + r1) \div 2
        ELSE r0 + ((v - d0) * (r1 - r0)) \div (d1 - d0)

(***************************************************************************)
(* render(): the two axes and the line.                                    *)
(***************************************************************************)
tRenderAxis(xs, ys, axes) ==
    [x |-> [axis |-> axes.x, domain |-> xs.domain, range |-> xs.range,
            translateY |-> tCanvasHeight],
     y |-> [axis |-> axes.y, domain |-> ys.domain, range |-> ys.range]]

\* one path for the whole series, a vertex per point in input order
tRenderLine(series, xs, ys) ==
    [exists |-> TRUE,
     d |-> [i \in 1..Len(series) |->
              <<ScaleTimeAt(xs, series[i].date.t), ScaleLinearAt(ys, series[i].price)>>]]

(***************************************************************************)
(* TimeChartComponent: the handlers.                                       *)
(***************************************************************************)
NoTransform == [k |-> 0, x |-> 0, y |-> 0]
NoZoom == [scaleExtent |-> <<0, 0>>, extent |-> <<>>, translateExtent |-> <<>>]
NoScale == [domain |-> <<>>, range |-> <<>>]
NoAxes == [x |-> [orient |-> "none"], y |-> [orient |-> "none"]]

\* history: the component's state as a handler finds it
TimeSnapshot ==
    [series |-> tSeries, xExtent |-> tXExtent, yExtent |-> tYExtent,
     xScale |-> tXScale, yScale |-> tYScale, xAxis |-> tXAxis, yAxis |-> tYAxis,
     path |-> tPath, axisDrawn |-> tAxisDrawn, stats |-> tStats]

InitTime ==
    /\ tSeries = <<>>
    /\ tLoaded = "new"
    /\ tXExtent = <<DateUndefined, DateUndefined>>
    /\ tYExtent = <<NumUndefined, NumUndefined>>
    /\ tXScale = NoScale
    /\ tYScale = NoScale
    /\ tXAxis = NoAxes.x
    /\ tYAxis = NoAxes.y
    /\ tZoom = NoZoom
    /\ tPath = [exists |-> FALSE, d |-> <<>>]
    /\ tAxisDrawn = [x |-> [axis |-> NoAxes.x], y |-> [axis |-> NoAxes.y]]
    /\ tStats = [computeExtent |-> 0, getData |-> 0]
    /\ tLast = [op |-> "new", ev |-> NoTransform, prevOp |-> "new",
                prevEv |-> NoTransform, before |-> <<>>]

\* ngOnInit(): getData() is called and subscribed to
NgOnInit ==
    /\ tLoaded = "new"
    /\ tLoaded' = "loading"
    /\ tStats' = [tStats EXCEPT !.getData = @ + 1]
    /\ tLast' = [op |-> "ngOnInit", ev |-> NoTransform, prevOp |-> tLast.op,
                 prevEv |-> tLast.ev, before |-> TimeSnapshot]
    /\ UNCHANGED <<tSeries, tXExtent, tYExtent, tXScale, tYScale, tXAxis, tYAxis,
                   tZoom, tPath, tAxisDrawn, ganttVars>>

\* the subscription's callback: this.series = resp; this.go()
DataLoaded(resp) ==
    /\ tLoaded = "loading"
    /\ tLoaded' = "loaded"
    /\ LET series == getData(resp)
           ext == tComputeExtent(series)
           sc == tComputeScale(ext)
           axes == tComputeAxis
       IN  /\ tSeries' = series
           /\ tXExtent' = ext.x
           /\ tYExtent' = ext.y
           /\ tXScale' = sc.x
           /\ tYScale' = sc.y
           /\ tXAxis' = axes.x
           /\ tYAxis' = axes.y
           /\ tZoom' = tComputeZoom
           /\ tAxisDrawn' = tRenderAxis(sc.x, sc.y, axes)
           /\ tPath' = tRenderLine(series, sc.x, sc.y)
    /\ tStats' = [tStats EXCEPT !.computeExtent = @ + 1]
    /\ tLast' = [op |-> "dataLoaded", ev |-> NoTransform, prevOp |-> tLast.op,
                 prevEv |-> tLast.ev, before |-> TimeSnapshot]
    /\ UNCHANGED ganttVars

\* a handler that transforms the range the scale has now
ZoomedRangeCompound(tr) ==
    <<applyY(tr, tYScale.range[1]), applyY(tr, tYScale.range[2])>>

\* the range zoomed() gives the value scale
ZoomedRange(tr) == <<applyY(tr, tCanvasHeight), applyY(tr, 0)>>

\* transform.applyX(d)
applyX(tr, d) == d * tr.k + tr.x

\* a handler that rescales the time scale as well
ZoomedBothAxes(tr) ==
    /\ tZoom # NoZoom
    /\ tr \in Transforms(tZoom)
    /\ LET ys == [tYScale EXCEPT !.range = <<applyY(tr, tCanvasHeight), applyY(tr, 0)>>]
           xs == [tXScale EXCEPT !.range = <<applyX(tr, 0), applyX(tr, tCanvasWidth)>>]
           axes == tComputeAxis
       IN  /\ tYScale' = ys
           /\ tXScale' = xs
           /\ tXAxis' = axes.x
           /\ tYAxis' = axes.y
           /\ tAxisDrawn' = tRenderAxis(xs, ys, axes)
           /\ tPath' = tRenderLine(tSeries, xs, ys)
    /\ tLast' = [op |-> "zoomed", ev |-> tr, prevOp |-> tLast.op,
                 prevEv |-> tLast.ev, before |-> TimeSnapshot]
    /\ UNCHANGED <<tSeries, tLoaded, tXExtent, tYExtent, tZoom, tStats, ganttVars>>

\* zoomed(event): remap the value scale's range, computeAxis(), render()
Zoomed(tr) ==
    /\ tZoom # NoZoom
    /\ tr \in Transforms(tZoom)
    /\ LET ys == [tYScale EXCEPT !.range = ZoomedRange(tr)]
           axes == tComputeAxis
       IN  /\ tYScale' = ys
           /\ tXAxis' = axes.x
           /\ tYAxis' = axes.y
           /\ tAxisDrawn' = tRenderAxis(tXScale, ys, axes)
           /\ tPath' = tRenderLine(tSeries, tXScale, ys)
    /\ tLast' = [op |-> "zoomed", ev |-> tr, prevOp |-> tLast.op,
                 prevEv |-> tLast.ev, before |-> TimeSnapshot]
    /\ UNCHANGED <<tSeries, tLoaded, tXExtent, tYExtent, tXScale, tZoom, tStats,
                   ganttVars>>

NextTime ==
    \/ NgOnInit
    \/ \E resp \in Responses : DataLoaded(resp)
    \/ \E tr \in Transforms(tComputeZoom) : Zoomed(tr)

Init == InitGantt /\ InitTime

Spec == Init /\ [][Next]_vars

SpecTime == Init /\ [][NextTime]_vars

-----------------------------------------------------------------------------
(***************************************************************************)
(* Properties of the Gantt chart (checked under Spec).                     *)
(***************************************************************************)
\* the children a record shows: its data when that is an array
VisibleKids(h, id) == IF Truthy(h[id].data) THEN h[id].data.items ELSE <<>>

\* reference pre-order walk, by structural recursion on the tree: a record,
\* then the walks of its visible children, first to last
RECURSIVE WalkAll(_, _, _)
RECURSIVE Walk(_, _, _)
WalkAll(h, ids, depth) ==
    IF ids = <<>> THEN <<>>
    ELSE Walk(h, Head(ids), depth) \o WalkAll(h, Tail(ids), depth)
Walk(h, id, depth) ==
    <<[id |-> id, depth |-> depth]>> \o WalkAll(h, VisibleKids(h, id), depth + 1)

IdSet(nodes) == {nodes[i].data : i \in 1..Len(nodes)}
BarEls(bs) == {bs[i].el : i \in 1..Len(bs)}
BarRecs(bs) == {bs[i].datum.data : i \in 1..Len(bs)}
ListIds(list) == {list[i].id : i \in 1..Len(list)}
Rendered == lastOp.op \in {"click", "afterViewInit"}

\* C1: the flattened list is the pre-order walk of the records reachable from
\* the synthetic root through data: every such record exactly once, a parent
\* before its children, children in the given order, the root itself left
\* out, each node's depth its distance from the root.
C1_FlattenPreOrder ==
    seriesNodes.tag = "array" =>
        /\ [i \in 1..Len(NodeList) |->
               [id |-> NodeList[i].data, depth |-> NodeList[i].depth]]
           = WalkAll(heap, VisibleKids(heap, serieSource), 1)
        /\ serieSource \notin IdSet(NodeList)
        /\ Cardinality(IdSet(NodeList)) = Len(NodeList)
        /\ \A i \in 1..Len(NodeList) : NodeList[i].depth = Len(NodeList[i].data.p)

\* a freshly set, fully expanded tree with a sibling after a nested subtree
C1_Witness ==
    /\ lastOp.op = "setSeries"
    /\ seriesNodes.tag = "array"
    /\ Len(NodeList) = 4
    /\ \E i \in 1..Len(NodeList) : NodeList[i].depth = 3
    /\ \A id \in IdSet(NodeList) : ~Truthy(heap[id]._data)

\* C2: two clicks in a row on the bar of the same record restore the
\* flattened list to the records (by identity, depth and name/start/end) and
\* the order it had before the first of the two clicks.
C2_CollapseRoundTrip ==
    (lastOp.op = "click" /\ prevOp.op = "click" /\ lastOp.rec = prevOp.rec) =>
        ListOf(heap, NodeList) = prevOp.listBefore

\* a collapse that hid records, undone by the second click
C2_Witness ==
    /\ lastOp.op = "click" /\ prevOp.op = "click" /\ lastOp.rec = prevOp.rec
    /\ Len(lastOp.listBefore) < Len(NodeList)
    /\ Len(NodeList) >= 3

\* C3: after renderGantt the keys of the live bars are exactly the keys of
\* seriesNodes, one bar per key, and a bar whose key (read through its datum
\* at join time) is a key of seriesNodes is the same element as before, now
\* bound to the node of that key; a bar whose key is not is gone.
C3_Reconciliation ==
    Rendered =>
        /\ {JoinKey(heap, bars[i].datum) : i \in 1..Len(bars)}
           = {JoinKey(heap, NodeList[i]) : i \in 1..Len(NodeList)}
        /\ Len(bars) = Len(NodeList)
        /\ \A i \in 1..Len(bars) : bars[i].datum \in SeqToSet(NodeList)
        /\ \A j \in 1..Len(lastOp.barsBefore) :
              LET old == lastOp.barsBefore[j]
                  k == JoinKey(heap, old.datum)
              IN  IF \E d \in 1..Len(NodeList) : JoinKey(heap, NodeList[d]) = k
                  THEN \E i \in 1..Len(bars) :
                          bars[i].el = old.el /\ JoinKey(heap, bars[i].datum) = k
                  ELSE old.el \notin BarEls(bars)

\* a render that kept some bars, removed some and so had an exit selection
C3_Witness ==
    /\ lastOp.op = "click"
    /\ BarEls(bars) \cap BarEls(lastOp.barsBefore) # {}
    /\ BarEls(lastOp.barsBefore) \ BarEls(bars) # {}

Populated(rec) ==
    (IF Truthy(rec.data) THEN 1 ELSE 0) + (IF Truthy(rec._data) THEN 1 ELSE 0)

\* C4 as stated: every record has exactly one of data and _data populated.
C4_ExactlyOne ==
    \A id \in DOMAIN heap : Populated(heap[id]) = 1

\* the clicked record as the click found it
ClickedBefore == lastOp.heapBefore[lastOp.rec]

\* C4 as amended: every record has at most one of data and _data populated
\* (a record given without data has neither), and a click moves the clicked
\* record's populated field to the other slot and changes no other record's
\* fields.
C4_AtMostOne ==
    /\ \A id \in DOMAIN heap : Populated(heap[id]) <= 1
    /\ lastOp.op = "click" =>
          /\ Truthy(heap[lastOp.rec].data) = Truthy(ClickedBefore._data)
          /\ Truthy(heap[lastOp.rec]._data) = Truthy(ClickedBefore.data)
          /\ \A id \in DOMAIN heap \ {lastOp.rec} :
                /\ heap[id].data = lastOp.heapBefore[id].data
                /\ heap[id]._data = lastOp.heapBefore[id]._data

\* a click has collapsed a record with children, and a leaf has neither field
C4_Witness ==
    /\ lastOp.op = "click"
    /\ Truthy(heap[lastOp.rec]._data)
    /\ Len(heap[lastOp.rec]._data.items) > 0
    /\ ~Truthy(heap[lastOp.rec].data)
    /\ \E id \in DOMAIN heap : Populated(heap[id]) = 0

\* a record with no children, visible or hidden
NoChildren(rec) ==
    /\ Truthy(rec.data) => rec.data.items = <<>>
    /\ Truthy(rec._data) => rec._data.items = <<>>

LeafClick == lastOp.op = "click" /\ NoChildren(ClickedBefore)

\* C5 as stated: a click on the bar of a node without children changes
\* nothing: the record's data and _data, the flattened list, the keys of the
\* visible records and the set of live bars are what they were.
C5_NoEffect ==
    LeafClick =>
        /\ heap[lastOp.rec].data = ClickedBefore.data
        /\ heap[lastOp.rec]._data = ClickedBefore._data
        /\ ListOf(heap, NodeList) = lastOp.listBefore
        /\ NodeKeys(heap, NodeList) = lastOp.keysBefore
        /\ BarEls(bars) = BarEls(lastOp.barsBefore)

\* C5 as amended: a click on the bar of a node without children shows and
\* hides nothing: the flattened list holds the same records at the same
\* depths in the same order, the record still has no children, there is one
\* bar per listed record, and every bar that was bound to a listed record is
\* still the same element bound to the same record.  It is not a no-op:
\* every listed record has a key that no listed record had before.
C5_LeafClickKeepsList ==
    LeafClick =>
        /\ ListOf(heap, NodeList) = lastOp.listBefore
        /\ NoChildren(heap[lastOp.rec])
        /\ BarRecs(bars) = IdSet(NodeList) /\ Len(bars) = Len(NodeList)
        /\ \A j \in 1..Len(lastOp.barsBefore) :
              LET old == lastOp.barsBefore[j]
              IN  old.datum.data \in IdSet(NodeList) =>
                     \E i \in 1..Len(bars) :
                        bars[i].el = old.el /\ bars[i].datum.data = old.datum.data
        /\ \A i \in 1..Len(NodeList) :
              \A j \in 1..Len(lastOp.keysBefore) :
                 heap[NodeList[i].data].key # lastOp.keysBefore[j]

\* a leaf of the drawn list was clicked, with other bars drawn beside it
C5_Witness ==
    /\ LeafClick
    /\ lastOp.rec \in IdSet(NodeList)
    /\ Len(bars) >= 2
    /\ BarEls(bars) = BarEls(lastOp.barsBefore)

\* C6: once the view exists, assigning the series input leaves the source
\* tree, the flattened list, the key map and the live bars all showing
\* exactly the records of the new input, every node expanded.
C6_SetSeriesReplaces ==
    (lastOp.op = "setSeries" /\ viewInit) =>
        /\ IdSet(NodeList) = {id \in DOMAIN heap : id.s = setCount /\ id.p # <<>>}
        /\ DOMAIN seriesNodeMap = {heap[id].key : id \in IdSet(NodeList)}
        /\ BarRecs(bars) = IdSet(NodeList)

\* C9: across a click, a record listed before and after keeps its bar
\* element; the bars removed are exactly those of the records that left the
\* list, the bars created exactly those of the records that joined it.
C9_ClickKeepsBars ==
    lastOp.op = "click" =>
        LET before == ListIds(lastOp.listBefore)
            after == IdSet(NodeList)
            old == lastOp.barsBefore
        IN  /\ \A r \in before \cap after :
                  \E j \in 1..Len(old), i \in 1..Len(bars) :
                     /\ old[j].datum.data = r
                     /\ bars[i].datum.data = r
                     /\ bars[i].el = old[j].el
            /\ {old[j].el : j \in {j \in 1..Len(old) : old[j].el \notin BarEls(bars)}}
               = {old[j].el : j \in {j \in 1..Len(old) : old[j].datum.data \in before \ after}}
            /\ {bars[i].el : i \in {i \in 1..Len(bars) : bars[i].el \notin BarEls(old)}}
               = {bars[i].el : i \in {i \in 1..Len(bars) : bars[i].datum.data \in after \ before}}

\* C9 where the layer shows the list the click starts from (no assignment to
\* series since the last render): there the statement of C9 holds.
C9_WhenBarsCurrent ==
    (lastOp.op = "click" /\ BarRecs(lastOp.barsBefore) = ListIds(lastOp.listBefore)) =>
        C9_ClickKeepsBars

\* the top-level records of the current source tree
TopLevel == {id \in DOMAIN heap : id.s = serieSource.s /\ Len(id.p) = 1}

\* C10: when the series input was a non-empty sequence, every top-level
\* record is in the flattened list whatever was clicked, so the list is not
\* empty and the extent computed by go() is over at least one node.
C10_TopLevelStays ==
    (seriesNodes.tag = "array" /\ TopLevel # {}) =>
        /\ TopLevel \subseteq IdSet(NodeList)
        /\ NodeList # <<>>
        /\ serieSource \notin BarRecs(bars)
        /\ Rendered =>
              /\ xExtent = computeExtent(heap, NodeList)
              /\ xExtent[1].kind = "date" /\ xExtent[2].kind = "date"

\* everything below the top level is collapsed away, by clicks
C10_Witness ==
    /\ lastOp.op = "click" /\ prevOp.op = "click"
    /\ TopLevel # {}
    /\ IdSet(NodeList) = TopLevel
    /\ \E id \in DOMAIN heap : id.s = serieSource.s /\ Len(id.p) = 3

-----------------------------------------------------------------------------
(***************************************************************************)
(* Properties of the time chart (checked under SpecTime).                  *)
(***************************************************************************)
\* C7: after a zoom event the value scale's range is the event's transform
\* applied to [canvasHeight, 0], whatever the range was; and handling the
\* same event a second time in a row leaves series, extents, scales, axes,
\* the drawn axes and the path as the first handling left them.
C7_ZoomIdempotent ==
    tLast.op = "zoomed" =>
        /\ tYScale.range = <<tCanvasHeight * tLast.ev.k + tLast.ev.y, tLast.ev.y>>
        /\ (tLast.prevOp = "zoomed" /\ tLast.prevEv = tLast.ev) =>
              TimeSnapshot = tLast.before

\* the same zooming transform handled twice over a series with two points
C7_Witness ==
    /\ tLast.op = "zoomed" /\ tLast.prevOp = "zoomed" /\ tLast.prevEv = tLast.ev
    /\ tLast.ev.k > 1 /\ tLast.ev.y < 0
    /\ Len(tSeries) >= 2

\* C8: a zoom event leaves the series, both extents, the value scale's
\* domain and the whole time scale as they were, and runs neither
\* computeExtent nor getData; the value scale's range is what it changes.
C8_ZoomFrame ==
    tLast.op = "zoomed" =>
        /\ tSeries = tLast.before.series
        /\ tXExtent = tLast.before.xExtent
        /\ tYExtent = tLast.before.yExtent
        /\ tYScale.domain = tLast.before.yScale.domain
        /\ tXScale = tLast.before.xScale
        /\ tStats = tLast.before.stats

\* a zoom with a horizontal translation that did change the value range
C8_Witness ==
    /\ tLast.op = "zoomed"
    /\ tLast.ev.k > 1 /\ tLast.ev.x < 0
    /\ tYScale.range # tLast.before.yScale.range
    /\ Len(tSeries) >= 2

====
